---- MODULE Spec2Model ----
(***************************************************************************)
(* eddymotion/model.py: the model factory (ModelFactory.init), the         *)
(* constructors of the delegated models (DTIModel, DKIModel,               *)
(* SparseFascicleModel) and the chunked fit/predict engine (BaseModel).    *)
(*                                                                         *)
(* Python values are records tagged by "kind", so that None, arrays,       *)
(* lists and capability objects can be compared with one another.          *)
(* A numpy array is [kind |-> "ndarray", shape, data]: data is the array   *)
(* in C (row-major) order.  Numbers are integers; float32 rounding is not  *)
(* modelled.  The normalised baseline is kept in units of 1e-5.            *)
(***************************************************************************)
EXTENDS Integers, Sequences, FiniteSets, TLC

VARIABLES
    _model,      \* BaseModel._model: the capability, its fit result, or None
    _mask,       \* BaseModel._mask: None or a boolean array
    _S0,         \* BaseModel._S0: None or the masked, normalised baseline
    _models,     \* BaseModel._models: None or the list of per-chunk fits
    _datashape,  \* BaseModel._datashape: unset until the first fit
    pc,          \* "idle", or the handler whose worker pool is running
    frame,       \* locals of the running chunked handler
    pending,     \* blocks of the running pool that have not completed
    results,     \* (value, block) pairs of the completed tasks
    call,        \* the last completed fit/predict call and its outcome
    ncalls,      \* number of fit/predict calls started
    fitlog,      \* the latest fit call: its data, the chunk count it
                 \* recorded, and whether it has returned
    fcall,       \* arguments of the factory/constructor call
    fresult      \* what the factory/constructor call returned or raised

vars == <<_model, _mask, _S0, _models, _datashape, pc, frame, pending,
          results, call, ncalls, fitlog, fcall, fresult>>

engineVars == <<_model, _mask, _S0, _models, _datashape, pc, frame, pending,
                results, call, ncalls, fitlog>>

factoryVars == <<fcall, fresult>>

-----------------------------------------------------------------------------
(* Python values *)

None == [kind |-> "None"]

Unset == [kind |-> "unset"]

IsNone(v) == v.kind = "None"

NDArray(shape, data) == [kind |-> "ndarray", shape |-> shape, data |-> data]

PyList(items) == [kind |-> "list", items |-> items]

PyTuple(items) == [kind |-> "tuple", items |-> items]

Raise(etype) == [kind |-> "raise", error |-> etype]

IsRaise(v) == v.kind = "raise"

-----------------------------------------------------------------------------
(* numpy *)

RECURSIVE Prod(_)
Prod(s) == IF s = <<>> THEN 1 ELSE Head(s) * Prod(Tail(s))

RECURSIVE SumSeq(_)
SumSeq(s) == IF s = <<>> THEN 0 ELSE Head(s) + SumSeq(Tail(s))

RECURSIVE Flatten(_)
Flatten(ss) == IF ss = <<>> THEN <<>> ELSE Head(ss) \o Flatten(Tail(ss))

RECURSIVE SelectIdx(_, _)
\* the indices i of s, ascending, with s[i] = TRUE
SelectIdx(s, from) ==
    IF from > Len(s) THEN <<>>
    ELSE (IF s[from] THEN <<from>> ELSE <<>>) \o SelectIdx(s, from + 1)

\* length of one row (entry along axis 0) of an array of this shape
RowLen(shape) == Prod(Tail(shape))

\* row r (1-based) of an array, as a flat sequence
Row(a, r) == SubSeq(a.data, (r - 1) * RowLen(a.shape) + 1, r * RowLen(a.shape))

\* a.reshape(shape): the same data, or ValueError when the sizes differ
np_reshape(a, shape) ==
    IF Prod(shape) = Len(a.data) THEN NDArray(shape, a.data)
    ELSE Raise("ValueError")

\* data.reshape(-1, data.shape[-1])
np_reshape_rows(a) ==
    LET g == a.shape[Len(a.shape)]
    IN  NDArray(<<Len(a.data) \div g, g>>, a.data)

\* a[mask, ...] for a boolean mask over the leading axes of a
np_bool_index(a, mask) ==
    LET nd == Len(mask.shape) IN
    IF Len(a.shape) < nd \/ SubSeq(a.shape, 1, nd) # mask.shape
    THEN Raise("IndexError")
    ELSE LET rest == SubSeq(a.shape, nd + 1, Len(a.shape))
             rl   == Prod(rest)
             idx  == SelectIdx(mask.data, 1)
         IN  NDArray(<<Len(idx)>> \o rest,
                     Flatten([k \in 1..Len(idx) |->
                         SubSeq(a.data, (idx[k] - 1) * rl + 1, idx[k] * rl)]))

\* first row (0-based offset) of block i of np.array_split over k rows
SplitStart(k, n, i) ==
    i * (k \div n) + (IF i < k % n THEN i ELSE k % n)

\* np.array_split(a, n): n blocks along axis 0, the first k % n one row longer
np_array_split(a, n) ==
    LET k  == a.shape[1]
        rl == RowLen(a.shape)
    IN  [j \in 1..n |->
            LET lo == SplitStart(k, n, j - 1)
                hi == SplitStart(k, n, j)
            IN  NDArray(<<hi - lo>> \o Tail(a.shape),
                        SubSeq(a.data, lo * rl + 1, hi * rl))]

\* np.squeeze(a): every axis of length one removed
np_squeeze(a) ==
    NDArray(SelectSeq(a.shape, LAMBDA d : d # 1), a.data)

\* np.atleast_1d(a)
np_atleast_1d(a) ==
    IF a.shape = <<>> THEN NDArray(<<1>>, a.data) ELSE a

\* np.concatenate(arrs, axis) for axis 0 (1-D) or 1 (2-D and more)
np_concatenate(arrs, axis) ==
    LET nd == Len(arrs[1].shape)
        others(s) == [d \in (1..Len(s)) \ {axis + 1} |-> s[d]]
    IN
    IF \E j \in 1..Len(arrs) :
          \/ Len(arrs[j].shape) # nd
          \/ others(arrs[j].shape) # others(arrs[1].shape)
    THEN Raise("ValueError")
    ELSE IF axis = 0
    THEN NDArray(<<SumSeq([j \in 1..Len(arrs) |-> arrs[j].shape[1]])>>
                     \o Tail(arrs[1].shape),
                 Flatten([j \in 1..Len(arrs) |-> arrs[j].data]))
    ELSE LET rows == arrs[1].shape[1]
             cols == SumSeq([j \in 1..Len(arrs) |-> arrs[j].shape[2]])
         IN  NDArray(<<rows, cols>> \o SubSeq(arrs[1].shape, 3, nd),
                     Flatten([r \in 1..rows |->
                         Flatten([j \in 1..Len(arrs) |-> Row(arrs[j], r)])]))

np_hstack_reversed(tup) ==
    LET arrs == [j \in 1..Len(tup) |-> np_atleast_1d(tup[Len(tup) + 1 - j])]
    IN  IF Len(arrs[1].shape) = 1 THEN np_concatenate(arrs, 0)
        ELSE np_concatenate(arrs, 1)

\* np.hstack(tup): along the first axis for 1-D arrays, else along the second
np_hstack(tup) ==
    LET arrs == [j \in 1..Len(tup) |-> np_atleast_1d(tup[j])]
    IN  IF Len(arrs[1].shape) = 1 THEN np_concatenate(arrs, 0)
        ELSE np_concatenate(arrs, 1)

\* the transpose of a 2-D array
np_transpose(a) ==
    LET r == a.shape[1]
        c == a.shape[2]
    IN  NDArray(<<c, r>>,
                [k \in 1..(r * c) |->
                    a.data[((k - 1) % r) * c + ((k - 1) \div r) + 1]])

\* retval = np.zeros_like(mask); retval[mask, ...] = value
np_scatter(mask, value) ==
    LET idx == SelectIdx(mask.data, 1)
        k   == Len(idx)
        pos(i) == CHOOSE j \in 1..k : idx[j] = i
    IN
    IF value.shape = <<>> \/ value.shape = <<1>>
    THEN NDArray(mask.shape,
                 [i \in 1..Len(mask.data) |->
                     IF mask.data[i] THEN value.data[1] ELSE 0])
    ELSE IF value.shape = <<k>>
    THEN NDArray(mask.shape,
                 [i \in 1..Len(mask.data) |->
                     IF mask.data[i] THEN value.data[pos(i)] ELSE 0])
    ELSE Raise("ValueError")

-----------------------------------------------------------------------------
(* _rasb2dipy: RAS+B array -> DIPY gradient table *)

\* gradient[3, :] of a (4, N) array: the b-values
BValRow(g) == Row(g, 4)

\* gradient[:3, :].T of a (4, N) array: one b-vector per sample
BVecs(g) ==
    [j \in 1..g.shape[2] |-> <<Row(g, 1)[j], Row(g, 2)[j], Row(g, 3)[j]>>]

_rasb2dipy(gradient) ==
    IF Len(gradient.shape) = 1 /\ gradient.shape[1] # 4
    THEN Raise("ValueError")
    ELSE LET g1 == IF Len(gradient.shape) = 1
                   THEN NDArray(<<4, 1>>, gradient.data)
                   ELSE gradient
             g2 == IF g1.shape[1] # 4 THEN np_transpose(g1) ELSE g1
         IN  IF g2.shape[1] < 4 THEN Raise("IndexError")
             ELSE [kind    |-> "GradientTable",
                   bvals   |-> BValRow(g2),
                   bvecs   |-> BVecs(g2),
                   warned  |-> (g1.shape = <<4, 4>>)]

-----------------------------------------------------------------------------
(* The external capability {fit, predict}.  It acts on every voxel (row)  *)
(* independently: the fitted parameter of a voxel is the sum of its       *)
(* samples, its predicted signal for sample j is S0 * (param + bval[j]).  *)

\* an unfitted capability; the engine does not tell the classes apart
Capability(cls) == [kind |-> "Model"]

\* model.fit(data) of an unfitted capability, data a (voxels, samples) array
cap_fit(data) ==
    [kind   |-> "Fit",
     params |-> [v \in 1..data.shape[1] |-> SumSeq(Row(data, v))]]

\* fit.predict(gradient, S0=S0): a (voxels, samples) array
cap_predict(fit, gtab, S0) ==
    LET k == Len(fit.params)
        n == Len(gtab.bvals)
    IN  IF ~IsNone(S0) /\ Len(S0.data) # k THEN Raise("ValueError")
        ELSE NDArray(<<k, n>>,
                 [e \in 1..(k * n) |->
                     LET v == ((e - 1) \div n) + 1
                         j == ((e - 1) % n) + 1
                     IN  (IF IsNone(S0) THEN 1 ELSE S0.data[v])
                             * (fit.params[v] + gtab.bvals[j])])

\* _exec_fit(model, data, block): (model.fit(data), block).  None has no fit;
\* raises says whether the capability's fit raises on this data.
_exec_fit(model, data, block, raises) ==
    IF IsNone(model) THEN Raise("AttributeError")
    ELSE IF raises THEN Raise("ModelFitError")
    ELSE [kind |-> "pair", val |-> cap_fit(data), block |-> block]

\* _exec_predict(model, gradient, block, S0=...):
\* (np.squeeze(model.predict(gradient, S0=S0)), block).  None has no predict;
\* the unfitted capability's predict does not take a gradient table.
_exec_predict(model, gradient, block, S0) ==
    IF IsNone(model) THEN Raise("AttributeError")
    ELSE IF model.kind # "Fit" THEN Raise("TypeError")
    ELSE LET p == cap_predict(model, gradient, S0)
         IN  IF IsRaise(p) THEN p
             ELSE [kind |-> "pair", val |-> np_squeeze(p), block |-> block]

-----------------------------------------------------------------------------
(* Constructors of the delegated models *)

S0Scale == 100000

PercentileRank == 35

\* the k-th smallest (1-based) entry of s
KthSmallest(s, k) ==
    CHOOSE x \in {s[i] : i \in 1..Len(s)} :
        /\ Cardinality({i \in 1..Len(s) : s[i] < x}) < k
        /\ Cardinality({i \in 1..Len(s) : s[i] <= x}) >= k

SeqMax(s) == CHOOSE x \in {s[i] : i \in 1..Len(s)} : \A i \in 1..Len(s) : s[i] <= x

\* np.clip(S0.astype("float32") / S0.max(), a_min=1e-5, a_max=1.0), in 1e-5s
NormalizeS0(S0) ==
    LET m == SeqMax(S0.data)
        q(v) == (v * S0Scale) \div m
    IN  NDArray(S0.shape,
                [i \in 1..Len(S0.data) |->
                    IF q(S0.data[i]) < 1 THEN 1
                    ELSE IF q(S0.data[i]) > S0Scale THEN S0Scale
                    ELSE q(S0.data[i])])

\* a > np.percentile(a, 35), with numpy's linear interpolation between the
\* two order statistics around rank 0.35 * (n - 1)
AbovePercentile(a) ==
    LET n  == Len(a.data)
        lo == (PercentileRank * (n - 1)) \div 100
        r  == (PercentileRank * (n - 1)) % 100
        xl == KthSmallest(a.data, lo + 1)
        xh == IF lo + 2 <= n THEN KthSmallest(a.data, lo + 2) ELSE xl
    IN  NDArray(a.shape,
                [i \in 1..n |-> 100 * a.data[i] > 100 * xl + r * (xh - xl)])

\* mask > 0 (the mask is a boolean array)
GreaterThanZero(mask) ==
    NDArray(mask.shape, [i \in 1..Len(mask.data) |-> mask.data[i] = TRUE])

\* BaseModel.__init__ (the shape slot is left unset)
BaseModel_init ==
    [_model |-> None, _mask |-> None, _S0 |-> None, _models |-> None,
     _datashape |-> Unset]

DTIModel_init(gtab, S0, mask) ==
    LET s0n == IF IsNone(S0) THEN None ELSE NormalizeS0(S0)
        m0  == IF IsNone(mask) THEN None ELSE GreaterThanZero(mask)
        m1  == IF IsNone(m0) /\ ~IsNone(s0n) THEN AbovePercentile(s0n) ELSE m0
        s0m == IF IsNone(s0n) THEN None ELSE np_bool_index(s0n, m1)
    IN  IF IsRaise(s0m) THEN s0m
        ELSE [BaseModel_init EXCEPT
                 !._S0 = s0m, !._mask = m1,
                 !._model = Capability("TensorModel")]
             @@ [kind |-> "DTIModel"]

\* DKIModel.__init__ and SparseFascicleModel.__init__ share these statements
RawMaskInit(S0, mask, kind, cls) ==
    LET s0n == IF IsNone(S0) THEN None ELSE NormalizeS0(S0)
        m1  == IF IsNone(mask) /\ ~IsNone(S0) THEN AbovePercentile(s0n) ELSE mask
        s0m == IF IsNone(m1) THEN s0n
               ELSE IF IsNone(s0n) THEN Raise("TypeError")
               ELSE np_bool_index(s0n, m1)
    IN  IF IsRaise(s0m) THEN s0m
        ELSE [BaseModel_init EXCEPT
                 !._S0 = s0m, !._mask = m1, !._model = Capability(cls)]
             @@ [kind |-> kind]

DKIModel_init(gtab, S0, mask) ==
    RawMaskInit(S0, mask, "DKIModel", "DiffusionKurtosisModel")

SparseFascicleModel_init(gtab, S0, mask, solver) ==
    RawMaskInit(S0, mask, "SparseFascicleModel", "SparseFascicleModel")
        @@ [_solver |-> IF IsNone(solver) THEN [kind |-> "str", s |-> "ElasticNet"]
                        ELSE solver]

TrivialB0Model_init(gtab, S0) ==
    IF IsNone(S0) THEN Raise("ValueError")
    ELSE [kind |-> "TrivialB0Model", _S0 |-> S0]

AverageDWModel_init(gtab, kwargs) == [kind |-> "AverageDWModel"]

-----------------------------------------------------------------------------
(* Bounds and inputs of the engine *)

MaxCalls == 3

MaxJobs == 3

\* n_jobs as passed by the caller; 0 stands for None (and for 0)
JobInputs == 0..MaxJobs

\* spatial shape of the volumes the masks and baselines are made for
MaskedShape == <<2, 2, 1>>

SpatialShapes == {MaskedShape, <<1, 2, 1>>}

\* a 4-D volume of two samples per voxel whose entries are all different
Volume(shape, seed) ==
    NDArray(shape \o <<2>>,
            [i \in 1..(Prod(shape) * 2) |-> 100 * seed + i * i])

Volumes == {Volume(sh, seed) : sh \in SpatialShapes, seed \in {0, 1}}

\* gradients given to predict: one sample (1-D), another b-value, two
\* samples as (N, 4), and a 1-D array that is not of size 4
Gradients ==
    {NDArray(<<4>>, <<1, 0, 0, 1>>),
     NDArray(<<4>>, <<0, 1, 0, 2>>),
     NDArray(<<2, 4>>, <<1, 0, 0, 1, 0, 1, 0, 3>>),
     NDArray(<<3>>, <<1, 0, 0>>)}

S0Inputs == {None, NDArray(MaskedShape, <<3, 1, 4, 2>>)}

MaskInputs == {None, NDArray(MaskedShape, <<TRUE, FALSE, TRUE, TRUE>>)}

TheGtab == _rasb2dipy(NDArray(<<4, 2>>, <<1, 0, 0, 1, 0, 0, 1, 2>>))

\* the instances the constructors can build from these inputs
Instances ==
    {r \in ({DTIModel_init(TheGtab, s, m) : s \in S0Inputs, m \in MaskInputs}
            \cup {DKIModel_init(TheGtab, s, m) : s \in S0Inputs, m \in MaskInputs}
            \cup {SparseFascicleModel_init(TheGtab, s, m, None) :
                     s \in S0Inputs, m \in MaskInputs}) :
        ~IsRaise(r)}

-----------------------------------------------------------------------------
(* BaseModel.fit *)

\* n_jobs = n_jobs or 1
NJobs(n_jobs) == IF n_jobs = 0 THEN 1 ELSE n_jobs

SelectVoxelsUnmasked(mask, data) == np_reshape_rows(data)

\* data[self._mask, ...] if self._mask is not None
\* else data.reshape(-1, data.shape[-1])
SelectVoxels(mask, data) ==
    IF ~IsNone(mask) THEN np_bool_index(data, mask) ELSE np_reshape_rows(data)

Returned(value) == [kind |-> "return", value |-> value]

NoFrame == [op |-> "none"]

\* the call as recorded when it ends; refit: the fit before it had returned
FitCall(data, n_jobs, outcome) ==
    [op |-> "fit", data |-> data, n_jobs |-> n_jobs, refit |-> fitlog.ok,
     outcome |-> outcome]

FitLog(data, recorded, ok) == [data |-> data, recorded |-> recorded, ok |-> ok]

\* fit with one job: the whole voxel set is fitted in the caller
FitSerial(data, n_jobs, raises) ==
    /\ pc = "idle"
    /\ ncalls < MaxCalls
    /\ NJobs(n_jobs) = 1
    /\ LET sel == SelectVoxels(_mask, data)
           r   == IF IsRaise(sel) THEN sel
                  ELSE _exec_fit(_model, sel, None, raises)
       IN  /\ _datashape' = PyTuple(data.shape)
           /\ _model' = IF IsRaise(r) THEN _model ELSE r.val
           /\ UNCHANGED <<_mask, _S0, _models, pc, frame, pending, results>>
           /\ call' = FitCall(data, n_jobs,
                              IF IsRaise(r) THEN r ELSE Returned(None))
           /\ fitlog' = IF IsRaise(r) THEN [fitlog EXCEPT !.ok = FALSE]
                        ELSE FitLog(data, 1, TRUE)
    /\ ncalls' = ncalls + 1
    /\ UNCHANGED factoryVars

\* fit with several jobs, up to the dispatch of one task per chunk
FitDispatch(data, n_jobs) ==
    /\ pc = "idle"
    /\ ncalls < MaxCalls
    /\ NJobs(n_jobs) # 1
    /\ LET sel == SelectVoxels(_mask, data)
       IN  /\ _datashape' = PyTuple(data.shape)
           /\ IF IsRaise(sel)
              THEN /\ UNCHANGED <<_models, pc, frame, pending, results>>
                   /\ call' = FitCall(data, n_jobs, sel)
                   /\ fitlog' = [fitlog EXCEPT !.ok = FALSE]
              ELSE /\ _models' = PyList([i \in 1..n_jobs |-> None])
                   /\ frame' = [op |-> "fit", data |-> data, n_jobs |-> n_jobs,
                                refit |-> fitlog.ok,
                                data_chunks |-> np_array_split(sel, n_jobs)]
                   /\ pending' = 0..(n_jobs - 1)
                   /\ results' = <<>>
                   /\ pc' = "fit"
                   /\ fitlog' = FitLog(data, n_jobs, FALSE)
                   /\ UNCHANGED call
    /\ ncalls' = ncalls + 1
    /\ UNCHANGED <<_model, _mask, _S0>>
    /\ UNCHANGED factoryVars

\* the task of block i ends; an exception of a task ends the whole call
FitWorker(i, raises) ==
    /\ pc = "fit"
    /\ i \in pending
    /\ LET r == _exec_fit(_model, frame.data_chunks[i + 1], i, raises)
       IN  IF IsRaise(r)
           THEN /\ pc' = "idle"
                /\ frame' = NoFrame
                /\ pending' = {}
                /\ results' = <<>>
                /\ call' = [FitCall(frame.data, frame.n_jobs, r)
                               EXCEPT !.refit = frame.refit]
           ELSE /\ results' = Append(results, r)
                /\ pending' = pending \ {i}
                /\ UNCHANGED <<pc, frame, call>>
    /\ UNCHANGED <<_model, _mask, _S0, _models, _datashape, ncalls, fitlog>>
    /\ UNCHANGED factoryVars

StoreByArrival(items, res) ==
    [j \in 1..Len(items) |-> IF j <= Len(res) THEN res[j].val ELSE items[j]]

RECURSIVE StoreByBlock(_, _)
\* for value, index in results: items[index] = value
StoreByBlock(items, res) ==
    IF res = <<>> THEN items
    ELSE StoreByBlock([items EXCEPT ![Head(res).block + 1] = Head(res).val],
                      Tail(res))

\* all tasks ended: the fits are stored by block and the model is dropped
FitCollect ==
    /\ pc = "fit"
    /\ pending = {}
    /\ _models' = PyList(StoreByBlock(_models.items, results))
    /\ _model' = None
    /\ call' = [FitCall(frame.data, frame.n_jobs, Returned(None))
                   EXCEPT !.refit = frame.refit]
    /\ fitlog' = [fitlog EXCEPT !.ok = TRUE]
    /\ pc' = "idle"
    /\ frame' = NoFrame
    /\ results' = <<>>
    /\ UNCHANGED <<_mask, _S0, _datashape, pending, ncalls>>
    /\ UNCHANGED factoryVars

-----------------------------------------------------------------------------
(* BaseModel.predict *)

\* self._models, as a condition: a list that is not empty
Truthy(l) == ~IsNone(l) /\ Len(l.items) > 0

\* n_models = len(self._models) if self._model is None and self._models else 1
n_models ==
    IF IsNone(_model) /\ Truthy(_models) THEN Len(_models.items) ELSE 1

\* the prediction back in the volume: scattered into zeros at the mask, or
\* reshaped to the recorded shape without its last axis
Reassemble(predicted) ==
    IF ~IsNone(_mask) THEN np_scatter(_mask, predicted)
    ELSE IF _datashape.kind = "unset" THEN Raise("AttributeError")
    ELSE np_reshape(predicted,
                    SubSeq(_datashape.items, 1, Len(_datashape.items) - 1))

\* the call as recorded when it ends: the tasks it dispatched, whether the
\* call before it was a predict with the same gradient, whether its tasks
\* ended in the order of their blocks, the order
\* in which they ended, the per-chunk predictions as placed, the merged
\* prediction before it is put back in the volume, and what it returned
PredictCall(gradient, dispatched, placed, predicted, outcome) ==
    [op |-> "predict", gradient |-> gradient, dispatched |-> dispatched,
     repeats |-> (call.op = "predict" /\ call.gradient = gradient),
     inorder |-> (\A j \in 1..Len(results) : results[j].block = j - 1),
     placed |-> placed, predicted |-> predicted, outcome |-> outcome]

PredictFrameDroppingModel ==
    /\ _model' = None
    /\ UNCHANGED <<_mask, _S0, _models, _datashape>>

\* predict does not assign any attribute of the instance
PredictFrame == UNCHANGED <<_model, _mask, _S0, _models, _datashape>>

\* predict with a single model
PredictSerial(gradient) ==
    /\ pc = "idle"
    /\ ncalls < MaxCalls
    /\ n_models = 1
    /\ LET g == _rasb2dipy(gradient)
           r == IF IsRaise(g) THEN g
                ELSE _exec_predict(_model, g, None, _S0)
           out == IF IsRaise(r) THEN r ELSE Reassemble(r.val)
       IN  call' = PredictCall(gradient, IF IsRaise(g) THEN 0 ELSE 1, None,
                               IF IsRaise(r) THEN None ELSE r.val,
                               IF IsRaise(out) THEN out ELSE Returned(out))
    /\ ncalls' = ncalls + 1
    /\ PredictFrame
    /\ UNCHANGED <<pc, frame, pending, results, fitlog>>
    /\ UNCHANGED factoryVars

\* predict with a chunk list, up to the dispatch of one task per chunk
PredictDispatch(gradient) ==
    /\ pc = "idle"
    /\ ncalls < MaxCalls
    /\ n_models # 1
    /\ LET g == _rasb2dipy(gradient)
       IN  IF IsRaise(g)
           THEN /\ call' = PredictCall(gradient, 0, None, None, g)
                /\ UNCHANGED <<pc, frame, pending, results>>
           ELSE /\ frame' = [op |-> "predict", gradient |-> gradient,
                             gtab |-> g, n_models |-> n_models,
                             S0 |-> IF ~IsNone(_S0)
                                    THEN np_array_split(_S0, n_models)
                                    ELSE [i \in 1..n_models |-> None]]
                /\ pending' = 0..(n_models - 1)
                /\ results' = <<>>
                /\ pc' = "predict"
                /\ UNCHANGED call
    /\ ncalls' = ncalls + 1
    /\ PredictFrame
    /\ UNCHANGED fitlog
    /\ UNCHANGED factoryVars

\* the task of block i ends; an exception of a task ends the whole call
PredictWorker(i) ==
    /\ pc = "predict"
    /\ i \in pending
    /\ LET r == _exec_predict(_models.items[i + 1], frame.gtab, i,
                              frame.S0[i + 1])
       IN  IF IsRaise(r)
           THEN /\ pc' = "idle"
                /\ frame' = NoFrame
                /\ pending' = {}
                /\ results' = <<>>
                /\ call' = PredictCall(frame.gradient, frame.n_models, None, None, r)
           ELSE /\ results' = Append(results, r)
                /\ pending' = pending \ {i}
                /\ UNCHANGED <<pc, frame, call>>
    /\ PredictFrame
    /\ UNCHANGED <<ncalls, fitlog>>
    /\ UNCHANGED factoryVars

\* all tasks ended: the predictions are placed by block, joined and
\* put back in the volume
PredictCollect ==
    /\ pc = "predict"
    /\ pending = {}
    /\ LET predicted == StoreByBlock([i \in 1..frame.n_models |-> None], results)
           merged    == np_hstack(predicted)
           out       == IF IsRaise(merged) THEN merged ELSE Reassemble(merged)
       IN  call' = PredictCall(frame.gradient, frame.n_models,
                               PyList(predicted),
                               IF IsRaise(merged) THEN None ELSE merged,
                               IF IsRaise(out) THEN out ELSE Returned(out))
    /\ pc' = "idle"
    /\ frame' = NoFrame
    /\ results' = <<>>
    /\ PredictFrame
    /\ UNCHANGED <<pending, ncalls, fitlog>>
    /\ UNCHANGED factoryVars

-----------------------------------------------------------------------------
(* The engine: one instance, then any calls of fit and predict *)

NoCall == [op |-> "none"]

Init ==
    /\ \E inst \in Instances :
          /\ _model = inst._model
          /\ _mask = inst._mask
          /\ _S0 = inst._S0
          /\ _models = inst._models
          /\ _datashape = inst._datashape
    /\ pc = "idle"
    /\ frame = NoFrame
    /\ pending = {}
    /\ results = <<>>
    /\ call = NoCall
    /\ ncalls = 0
    /\ fitlog = FitLog(None, 0, FALSE)
    /\ fcall = None
    /\ fresult = None

Next ==
    \/ \E data \in Volumes, n_jobs \in JobInputs, raises \in BOOLEAN :
          FitSerial(data, n_jobs, raises)
    \/ \E data \in Volumes, n_jobs \in JobInputs : FitDispatch(data, n_jobs)
    \/ \E i \in pending, raises \in BOOLEAN : FitWorker(i, raises)
    \/ FitCollect
    \/ \E gradient \in Gradients : PredictSerial(gradient)
    \/ \E gradient \in Gradients : PredictDispatch(gradient)
    \/ \E i \in pending : PredictWorker(i)
    \/ PredictCollect

Spec == Init /\ [][Next]_vars

-----------------------------------------------------------------------------
(* Properties of the engine *)

CallEnded(op) == pc = "idle" /\ call.op = op

ReturnedNormally == call.outcome.kind = "return"

\* the gradient of the last predict call holds exactly one sample
OneSample ==
    LET g == _rasb2dipy(call.gradient)
    IN  ~IsRaise(g) /\ Len(g.bvals) = 1

\* the baseline of the voxels of block i (1-based) of n, or None
S0Block(n, i) ==
    IF IsNone(_S0) THEN None ELSE np_array_split(_S0, n)[i]

\* one fit of all the voxels whose parameters are those of the chunk list
JoinedFit ==
    [kind |-> "Fit",
     params |-> Flatten([i \in 1..Len(_models.items) |-> _models.items[i].params])]

SerialResult(data, gradient) ==
    Reassemble(np_squeeze(
        cap_predict(cap_fit(SelectVoxels(_mask, data)), _rasb2dipy(gradient), _S0)))

\* C2: after a fit that returned, whatever its number of jobs, a predict
\* for one gradient sample returns an array of the volume's spatial shape,
\* equal to what a fit of the whole voxel set in one piece gives.
C2_ChunkingPreservesResult ==
    (CallEnded("predict") /\ fitlog.ok /\ OneSample) =>
        /\ ReturnedNormally
        /\ call.outcome.value.shape = SubSeq(fitlog.data.shape, 1, 3)
        /\ call.outcome.value = SerialResult(fitlog.data, call.gradient)

\* C2 witness: a predict has returned after a fit with three jobs of a
\* volume of four voxels (blocks of 2, 1 and 1 voxels).
C2_Witness ==
    /\ CallEnded("predict")
    /\ ReturnedNormally
    /\ fitlog.ok
    /\ fitlog.recorded = 3
    /\ call.dispatched = 3
    /\ IsNone(_mask)
    /\ Prod(SubSeq(fitlog.data.shape, 1, 3)) = 4

StrictMask ==
    /\ ~IsNone(_mask)
    /\ \E i \in 1..Len(_mask.data) : ~_mask.data[i]
    /\ \E i \in 1..Len(_mask.data) : _mask.data[i]

\* the prediction of voxel i (flat index) of the volume, computed alone,
\* with the baseline of the k-th selected voxel
VoxelAlone(data, i, k, gradient) ==
    LET g   == data.shape[Len(data.shape)]
        row == NDArray(<<1, g>>, SubSeq(data.data, (i - 1) * g + 1, i * g))
        s0  == IF IsNone(_S0) THEN None ELSE NDArray(<<1>>, <<_S0.data[k]>>)
    IN  cap_predict(cap_fit(row), _rasb2dipy(gradient), s0).data[1]

\* C3: with a mask that selects a strict subset of the voxels, a predict
\* (one gradient sample) after a fit that returned gives an array of the
\* mask's shape (the spatial shape of the fitted volume) that is zero outside
\* the mask and holds, at the k-th masked voxel, the prediction of the k-th
\* voxel selected at fit time.
C3_MaskedPrediction ==
    (CallEnded("predict") /\ fitlog.ok /\ OneSample /\ StrictMask) =>
        /\ ReturnedNormally
        /\ call.outcome.value.shape = _mask.shape
        /\ SubSeq(fitlog.data.shape, 1, Len(fitlog.data.shape) - 1) = _mask.shape
        /\ LET idx == SelectIdx(_mask.data, 1)
               out == call.outcome.value.data
           IN  /\ \A i \in 1..Len(_mask.data) : ~_mask.data[i] => out[i] = 0
               /\ \A k \in 1..Len(idx) :
                     out[idx[k]] = VoxelAlone(fitlog.data, idx[k], k, call.gradient)

\* C3 witness: a chunked predict has returned on an instance whose mask
\* leaves a voxel out.
C3_Witness ==
    /\ CallEnded("predict")
    /\ ReturnedNormally
    /\ StrictMask
    /\ fitlog.ok
    /\ call.dispatched = 2

\* C4: when the capability's fit raises on a chunk of a chunked fit, the
\* call raises and the instance is left without a chunk list.
C4_NoChunkListAfterFailedFit ==
    (CallEnded("fit") /\ ~ReturnedNormally /\ NJobs(call.n_jobs) > 1
        /\ call.outcome.error = "ModelFitError") =>
        IsNone(_models)

\* C5: a predict call that got as far as dispatching either dispatches as
\* many tasks as the chunk count the latest fit recorded, or raises.
C5_PredictUsesRecordedCount ==
    (CallEnded("predict") /\ call.dispatched > 0) =>
        \/ ~ReturnedNormally
        \/ call.dispatched = fitlog.recorded

\* C6: a fit call on an instance whose previous fit returned raises only
\* when the capability raises on the new data or the volume does not have
\* the mask's shape; when it returns, the recorded shape is the new one.
C6_RefitSucceeds ==
    (CallEnded("fit") /\ call.refit) =>
        /\ ~ReturnedNormally => call.outcome.error \in {"ModelFitError", "IndexError"}
        /\ ReturnedNormally => _datashape = PyTuple(call.data.shape)

\* a step of a predict call
PredictStep ==
    \/ pc = "predict"
    \/ pc' = "predict"
    \/ pc = "idle" /\ pc' = "idle" /\ ncalls' = ncalls + 1 /\ call'.op = "predict"

\* a predict call ends in this step
PredictEnds ==
    /\ PredictStep
    /\ pc' = "idle"
    /\ call'.op = "predict"

\* C7: no step of a predict call changes the single model, the chunk list,
\* the mask, the baseline or the recorded shape, and a predict call that
\* follows a predict call with the same gradient ends with the same outcome.
C7_PredictKeepsFittedState ==
    [][/\ PredictStep =>
            UNCHANGED <<_model, _models, _mask, _S0, _datashape>>
       /\ (PredictEnds /\ call.op = "predict"
              /\ call.gradient = call'.gradient) =>
            call'.outcome = call.outcome]_vars

\* C7 witness: two predict calls with the same gradient have returned, the
\* tasks of the second ending in another order than those of the first.
C7_Witness ==
    /\ CallEnded("predict")
    /\ ReturnedNormally
    /\ call.repeats
    /\ call.dispatched = 2
    /\ ~call.inorder
    /\ fitlog.ok

\* C9: when all tasks of a chunked predict have ended, the merged prediction
\* holds one entry per fitted voxel (a value, or a row of one value per
\* sample) in the original voxel order, and the task of each chunk was
\* given the baseline of exactly the voxels of that chunk.
C9_MergedAlongVoxelAxis ==
    (CallEnded("predict") /\ call.placed.kind = "list") =>
        LET g == _rasb2dipy(call.gradient)
            n == call.dispatched
            k == Len(JoinedFit.params)
            first(i) == SumSeq([j \in 1..(i - 1) |-> Len(_models.items[j].params)])
        IN  /\ \A i \in 1..n :
                  call.placed.items[i] =
                      np_squeeze(cap_predict(_models.items[i], g,
                          IF IsNone(_S0) THEN None
                          ELSE NDArray(<<Len(_models.items[i].params)>>,
                                   SubSeq(_S0.data, first(i) + 1, first(i + 1)))))
            /\ ~IsNone(call.predicted)
            /\ call.predicted.data = cap_predict(JoinedFit, g, _S0).data
            /\ (k > 1 /\ Len(g.bvals) > 1) => call.predicted.shape = <<k, Len(g.bvals)>>
            /\ (k > 1 /\ Len(g.bvals) = 1) => call.predicted.shape = <<k>>

-----------------------------------------------------------------------------
(* ModelFactory.init *)

\* a string is the sequence of its characters
UpperCase ==
    <<"A", "B", "C", "D", "E", "F", "G", "H", "I", "J", "K", "L", "M", "N", "O", "P", "Q", "R", "S", "T", "U", "V", "W", "X", "Y", "Z">>

LowerCase ==
    <<"a", "b", "c", "d", "e", "f", "g", "h", "i", "j", "k", "l", "m", "n", "o", "p", "q", "r", "s", "t", "u", "v", "w", "x", "y", "z">>

\* str.lower()
Lower(str) ==
    [i \in 1..Len(str) |->
        IF \E j \in 1..Len(UpperCase) : UpperCase[j] = str[i]
        THEN LowerCase[CHOOSE j \in 1..Len(UpperCase) : UpperCase[j] = str[i]]
        ELSE str[i]]

\* str.startswith(prefix)
StartsWith(str, prefix) ==
    Len(str) >= Len(prefix) /\ SubSeq(str, 1, Len(prefix)) = prefix

\* a keyword argument that was not passed
Absent == [kind |-> "absent"]

\* kwargs.get(key) of the constructor's signature: the default is None
ArgOrNone(v) == IF v.kind = "absent" THEN None ELSE v

Built(target, value) ==
    [kind |-> "result", via |-> "factory", target |-> target, value |-> value]

\* ModelFactory.init.  What it returns is tagged with the class it chose.
\* The solver and isotropic parameters it prepares for the sparse-fascicle
\* model are kept (solver) or discarded (isotropic) by the constructor.
ModelFactory_init(gtab, model, kwargs) ==
    LET low == Lower(model) IN
    IF low \in {<<"s", "0">>, <<"b", "0">>}
    THEN Built("TrivialB0Model",
               IF kwargs.S0.kind = "absent" THEN Raise("KeyError")
               ELSE TrivialB0Model_init(gtab, kwargs.S0))
    ELSE IF low \in {<<"a", "v", "g">>, <<"a", "v", "e", "r", "a", "g", "e">>,
                     <<"m", "e", "a", "n">>}
    THEN Built("AverageDWModel", AverageDWModel_init(gtab, kwargs))
    ELSE LET g == _rasb2dipy(gtab) IN
    IF IsRaise(g) THEN Built("none", g)
    ELSE IF StartsWith(low, <<"3", "d", "s", "h", "o", "r", "e">>)
    THEN Built("ShoreModel", [kind |-> "ShoreModel"])
    ELSE IF low \in {<<"s", "f", "m">>, <<"g", "p">>}
    THEN Built("SparseFascicleModel",
               SparseFascicleModel_init(g, ArgOrNone(kwargs.S0),
                   ArgOrNone(kwargs.mask),
                   [kind |-> "str",
                    s |-> IF low = <<"g", "p">> THEN "GaussianProcessRegressor"
                          ELSE "ElasticNet"]))
    ELSE IF low = <<"d", "t", "i">>
    THEN Built("DTIModel",
               DTIModel_init(g, ArgOrNone(kwargs.S0), ArgOrNone(kwargs.mask)))
    ELSE IF low = <<"d", "k", "i">>
    THEN Built("DKIModel",
               DKIModel_init(g, ArgOrNone(kwargs.S0), ArgOrNone(kwargs.mask)))
    ELSE Built("none", Raise("NotImplementedError") @@ [names |-> model])

\* the model names the factory is called with
Tokens ==
    {<<"d", "t", "i">>,
     <<"D", "T", "I">>,
     <<"D", "t", "i">>,
     <<"d", "k", "i">>,
     <<"D", "K", "I">>,
     <<"s", "0">>,
     <<"S", "0">>,
     <<"b", "0">>,
     <<"B", "0">>,
     <<"a", "v", "g">>,
     <<"A", "V", "G">>,
     <<"a", "v", "e", "r", "a", "g", "e">>,
     <<"A", "v", "e", "r", "a", "g", "e">>,
     <<"m", "e", "a", "n">>,
     <<"M", "E", "A", "N">>,
     <<"3", "d", "s", "h", "o", "r", "e">>,
     <<"3", "D", "S", "H", "O", "R", "E">>,
     <<"3", "d", "S", "h", "o", "r", "e", "X">>,
     <<"s", "f", "m">>,
     <<"S", "F", "M">>,
     <<"g", "p">>,
     <<"G", "P">>,
     <<"b", "o", "g", "u", "s">>,
     <<"D", "T", "I", "x">>,
     <<"s">>,
     <<"A", "v", "e", "r", "a", "g", "e", "D", "W">>}

\* the gradient tables the factory is called with: (4, N), (N, 4), 1-D of
\* size 4, (4, 4), 1-D of size 3 and (3, 2)
GtabInputs ==
    {NDArray(<<4, 2>>, <<1, 0, 0, 1, 0, 0, 1, 2>>),
     NDArray(<<2, 4>>, <<1, 0, 0, 1, 0, 1, 0, 1>>),
     NDArray(<<4>>, <<1, 0, 0, 1>>),
     NDArray(<<4, 4>>, <<1, 0, 0, 0, 0, 1, 0, 0, 0, 0, 1, 0, 1, 1, 2, 2>>),
     NDArray(<<3>>, <<1, 0, 0>>),
     NDArray(<<3, 2>>, <<1, 0, 0, 1, 0, 0>>)}

KwargInputs ==
    {[S0 |-> s, mask |-> m] :
        s \in S0Inputs \cup {Absent}, m \in MaskInputs \cup {Absent}}

DelegatedClasses == {"DTIModel", "DKIModel", "SparseFascicleModel"}

\* ModelFactory.init(gtab, model, **kwargs)
FactoryInit ==
    /\ IsNone(fresult)
    /\ fresult' = ModelFactory_init(fcall.gtab, fcall.model, fcall.kwargs)
    /\ UNCHANGED fcall
    /\ UNCHANGED engineVars

\* cls(gtab, S0=..., mask=...) called directly with a DIPY gradient table
Construct(cls) ==
    /\ IsNone(fresult)
    /\ ~IsRaise(_rasb2dipy(fcall.gtab))
    /\ LET S0   == ArgOrNone(fcall.kwargs.S0)
           mask == ArgOrNone(fcall.kwargs.mask)
           g    == _rasb2dipy(fcall.gtab)
       IN  fresult' =
             [kind |-> "result", via |-> "constructor", target |-> cls,
              value |-> IF cls = "DTIModel" THEN DTIModel_init(g, S0, mask)
                        ELSE IF cls = "DKIModel" THEN DKIModel_init(g, S0, mask)
                        ELSE SparseFascicleModel_init(g, S0, mask, None)]
    /\ UNCHANGED fcall
    /\ UNCHANGED engineVars

InitFactory ==
    /\ \E gtab \in GtabInputs, model \in Tokens, kwargs \in KwargInputs :
          fcall = [gtab |-> gtab, model |-> model, kwargs |-> kwargs]
    /\ fresult = None
    /\ _model = BaseModel_init._model
    /\ _mask = BaseModel_init._mask
    /\ _S0 = BaseModel_init._S0
    /\ _models = BaseModel_init._models
    /\ _datashape = BaseModel_init._datashape
    /\ pc = "idle"
    /\ frame = NoFrame
    /\ pending = {}
    /\ results = <<>>
    /\ call = NoCall
    /\ ncalls = 0
    /\ fitlog = FitLog(None, 0, FALSE)

NextFactory ==
    \/ FactoryInit
    \/ \E cls \in DelegatedClasses : Construct(cls)

SpecFactory == InitFactory /\ [][NextFactory]_vars

\* the variant the factory assigns to a lower-cased model name
Assigned(low) ==
    IF low \in {<<"s", "0">>, <<"b", "0">>} THEN "TrivialB0Model"
    ELSE IF low \in {<<"a", "v", "g">>, <<"a", "v", "e", "r", "a", "g", "e">>,
                     <<"m", "e", "a", "n">>} THEN "AverageDWModel"
    ELSE IF StartsWith(low, <<"3", "d", "s", "h", "o", "r", "e">>) THEN "ShoreModel"
    ELSE IF low \in {<<"s", "f", "m">>, <<"g", "p">>} THEN "SparseFascicleModel"
    ELSE IF low = <<"d", "t", "i">> THEN "DTIModel"
    ELSE IF low = <<"d", "k", "i">> THEN "DKIModel"
    ELSE "none"

\* C8: for a model name of one of the families, in any letter case, the
\* factory returns the family's variant (or the error its construction
\* raises); for any other name, whatever the gradient table and the
\* options, it raises the unsupported-model error that names the token.
C8_FactoryDispatch ==
    (~IsNone(fresult) /\ fresult.via = "factory") =>
        LET a == Assigned(Lower(fcall.model)) IN
        IF a # "none"
        THEN \/ fresult.value.kind = a
             \/ (IsRaise(fresult.value) /\ fresult.value.error # "NotImplementedError")
        ELSE /\ IsRaise(fresult.value)
             /\ fresult.value.error = "NotImplementedError"
             /\ fresult.value.names = fcall.model

\* C10: for each delegated class and each combination of baseline and mask
\* supplied or not, the constructor returns an instance that stores the
\* normalised baseline restricted to the mask (none without a baseline) and
\* the explicit mask, else the mask derived from the baseline, else none.
C10_ConstructorStores ==
    (~IsNone(fresult) /\ fresult.via = "constructor") =>
        LET S0   == ArgOrNone(fcall.kwargs.S0)
            mask == ArgOrNone(fcall.kwargs.mask)
            m    == IF ~IsNone(mask) THEN mask
                    ELSE IF ~IsNone(S0) THEN AbovePercentile(NormalizeS0(S0))
                    ELSE None
        IN  /\ fresult.value.kind = fresult.target
            /\ fresult.value._mask = m
            /\ fresult.value._S0 =
                  IF IsNone(S0) THEN None ELSE np_bool_index(NormalizeS0(S0), m)

====
